---------------------------- MODULE Spec2Model ----------------------------
(***************************************************************************)
(* Model of generar_pdf_resumen_dia_completo (src/app.py, lines 108-270):  *)
(* for each shift (Turno) 1, 2, 3 the rows of the day are filtered,        *)
(* normalised to strings, sorted by (Area, Faena, Ubicacion), the SPAN     *)
(* commands of the Area and Faena columns are computed, the repeated       *)
(* texts are blanked, and the table is appended to the document.           *)
(*                                                                         *)
(* A table row is a sequence of strings; TLA+ sequences are 1-based, so    *)
(* row k of raw_data is Python's raw_data[k-1] and is row k of the         *)
(* rendered table (row 0 of the rendered table is the header).  Python     *)
(* column c is cell c+1 of a row.  Span commands keep the code's shape     *)
(* <<"SPAN", <<c, start>>, <<c, end>>>> with Python column numbers.        *)
(***************************************************************************)
EXTENDS Integers, Sequences, FiniteSets, TLC

VARIABLES
    df_dia_completo,   \* the input frame: a sequence of records
    df_columns,        \* the names of the columns the frame has
    cols_existentes,   \* line 153
    error,             \* the exception that ended the function ("" if none)
    turno_actual,      \* loop variable of "for turno_actual in [1, 2, 3]"
    pc,                \* position inside the function
    datos_agregados,   \* line 142 / 151
    raw_data,          \* line 166
    spans,             \* line 167
    data_procesada,    \* line 206 (texts of the Paragraphs)
    blanqueadas,       \* history: <<k, c>> of the cells assigned "" at 217 / 223
    elements,          \* line 117: the tables appended so far
    retorno            \* what the function returned ("" while running)

vars == <<df_dia_completo, df_columns, cols_existentes, error, turno_actual, pc,
          datos_agregados, raw_data, spans, data_procesada, blanqueadas,
          elements, retorno>>

(***************************************************************************)
(* Bounds and value universes.                                             *)
(***************************************************************************)
MaxRows == 4

Turnos == {1}
Areas == {"NaN", "X", "Y"}
Faenas == {"NaN", "A", "B"}
Metricas == {<<7>>}
Ubicaciones == {"U"}
Observaciones == {"obs"}

\* pandas' missing value in a text column, and in the numeric column Metrica
NaN == "NaN"
MetricaNaN == <<>>

\* Python's None, kept apart from every string: prev_* is None or Algun(v)
None == <<>>
Algun(v) == <<v>>

cols == <<"Area", "Faena", "Metrica", "Ubicacion", "Observaciones">>

(***************************************************************************)
(* Step 1 (lines 146-162): filter, clean nulls, convert, sort.             *)
(***************************************************************************)
RECURSIVE SelectSeqTurno(_, _)
SelectSeqTurno(df, t) ==
    IF df = <<>> THEN <<>>
    ELSE IF Head(df).Turno = t
         THEN <<Head(df)>> \o SelectSeqTurno(Tail(df), t)
         ELSE SelectSeqTurno(Tail(df), t)

\* line 158: "" if pd.isna(x) else f"{int(x)}"
MetricaTexto(x) == IF x = MetricaNaN THEN "" ELSE ToString(x[1])

\* line 159: fillna("").astype(str) on a text cell
Texto(x) == IF x = NaN THEN "" ELSE x

\* line 153: cols_existentes = [c for c in cols if c in df_turno.columns]
ColsExistentes(columns) == SelectSeq(cols, LAMBDA c : c \in columns)

\* lines 157-159: the text of one cell of df_pdf
Celda(r, col) ==
    CASE col = "Area"          -> Texto(r.Area)
      [] col = "Faena"         -> Texto(r.Faena)
      [] col = "Metrica"       -> MetricaTexto(r.Metrica)
      [] col = "Ubicacion"     -> Texto(r.Ubicacion)
      [] col = "Observaciones" -> Texto(r.Observaciones)

\* lines 153-159: one row of df_pdf, in the order of the columns ce
\* faulty variant: a row keeps every declared column
FilaPdfCompleta(r, ce) == [j \in 1..Len(cols) |-> Celda(r, cols[j])]

FilaPdfDe(r, ce) == [j \in 1..Len(ce) |-> Celda(r, ce[j])]

\* lines 153-159: one row of df_pdf when the frame has every column of cols
FilaPdf(r) == FilaPdfDe(r, cols)

\* Python orders strings by code point; every text of the model has at most
\* one character that matters for the order.
CodePoint(s) ==
    CASE s = ""  -> 0
      [] s = " " -> 32
      [] s = "A" -> 65
      [] s = "B" -> 66
      [] s = "U" -> 85
      [] s = "X" -> 88
      [] s = "Y" -> 89
      [] OTHER   -> 127

\* line 162: by=['Area', 'Faena', 'Ubicacion']
\* faulty variant: the sort does not name the Faena column
ColumnasOrdenSinFaena == <<"Area", "Ubicacion">>

\* line 162: by=['Area', 'Faena', 'Ubicacion']
ColumnasOrden == <<"Area", "Faena", "Ubicacion">>

\* line 162: sort_values raises KeyError when a column of "by" is missing
FaltaColumnaOrden(ce) ==
    \E j \in 1..Len(ColumnasOrden) : \A i \in 1..Len(ce) : ce[i] # ColumnasOrden[j]

\* the place of a column in the rows of df_pdf
Indice(ce, col) == CHOOSE j \in 1..Len(ce) : ce[j] = col

\* the sort key of line 162, compared lexicographically from column j of "by"
RECURSIVE MenorDesde(_, _, _, _)
MenorDesde(f, g, ce, j) ==
    IF j > Len(ColumnasOrden) THEN FALSE
    ELSE LET i == Indice(ce, ColumnasOrden[j])
         IN \/ CodePoint(f[i]) < CodePoint(g[i])
            \/ f[i] = g[i] /\ MenorDesde(f, g, ce, j + 1)

\* the sort key of line 162: (Area, Faena, Ubicacion), compared lexicographically
Menor(f, g, ce) == MenorDesde(f, g, ce, 1)

RECURSIVE Insertar(_, _, _)
Insertar(f, s, ce) ==
    IF s = <<>> THEN <<f>>
    ELSE IF Menor(f, Head(s), ce) THEN <<f>> \o s
         ELSE <<Head(s)>> \o Insertar(f, Tail(s), ce)

\* faulty variant: the rows are left in the order of the frame
SinOrdenar(s, ce) == s

\* line 162: sort_values(by=['Area', 'Faena', 'Ubicacion']), a stable sort
RECURSIVE SortValues(_, _)
SortValues(s, ce) ==
    IF s = <<>> THEN <<>>
    ELSE Insertar(s[Len(s)], SortValues(SubSeq(s, 1, Len(s) - 1), ce), ce)

\* lines 154-159 and 166: the rows of df_pdf as lists
RECURSIVE MapFilaPdfDe(_, _)
MapFilaPdfDe(s, ce) ==
    IF s = <<>> THEN <<>> ELSE <<FilaPdfDe(Head(s), ce)>> \o MapFilaPdfDe(Tail(s), ce)

MapFilaPdf(s) == MapFilaPdfDe(s, cols)

(***************************************************************************)
(* Step 2 (lines 164-201): the SPAN commands.                              *)
(***************************************************************************)
Span(c, s, e) == <<"SPAN", <<c, s>>, <<c, e>>>>

\* line 175: curr_val = row[0]
ClaveArea(row) == row[1]

\* faulty variant: the Faena key without its Area
ClaveFaenaSinArea(row) == <<row[2]>>

\* line 194: curr_val = (row[0], row[1])
ClaveFaena(row) == <<row[1], row[2]>>

Clave(c, row) == IF c = 0 THEN ClaveArea(row) ELSE ClaveFaena(row)

\* faulty variant: a closed group needs three rows to get its span
CierraGrupoTresFilas(i, start_row) == i - 1 > start_row + 1

\* faulty variant: one-row groups inside the table get a span too
CierraGrupoUnaFila(i, start_row) == i - 1 >= start_row

\* lines 178 / 196: if i - 1 > start_row
CierraGrupo(i, start_row) == i - 1 > start_row

\* faulty variant: the span runs into the first row of the next group
FinGrupoSiguiente(i) == i

\* lines 179 / 197: the end row of a closed group, i-1
FinGrupo(i) == i - 1

\* faulty variant: the new group is taken to start on the row above
InicioGrupoAnterior(i) == i - 1

\* lines 181 / 199: start_row = i
InicioGrupo(i) == i

\* faulty variant: the last group is never closed
UltimoGrupoOlvidado(n, start_row) == FALSE

\* lines 183 / 200: if (len(raw_data) + 1) > start_row
CierraUltimoGrupo(n, start_row) == (n + 1) > start_row

\* lines 174-181 / 193-199: for i, row in enumerate(raw_data[1:], start=2)
RECURSIVE BucleSpans(_, _, _, _, _, _)
BucleSpans(raw, c, i, start_row, last_val, acc) ==
    IF i > Len(raw)
    THEN IF CierraUltimoGrupo(Len(raw), start_row)
         THEN Append(acc, Span(c, start_row, Len(raw)))
         ELSE acc
    ELSE LET curr_val == Clave(c, raw[i]) IN
         IF curr_val # last_val
         THEN BucleSpans(raw, c, i + 1, InicioGrupo(i), curr_val,
                         IF CierraGrupo(i, start_row)
                         THEN Append(acc, Span(c, start_row, FinGrupo(i)))
                         ELSE acc)
         ELSE BucleSpans(raw, c, i + 1, start_row, last_val, acc)

\* faulty variant: the span computation does not test for an empty table
HayFilasSiempre(raw) == TRUE

\* lines 170 / 189: if len(raw_data) > 0
HayFilas(raw) == Len(raw) > 0

\* line 189: and len(cols_existentes) > 1
HayFaena(ce) == Len(ce) > 1

\* lines 172-175 / 191-194: the key of level c reads row[0] .. row[c]; a list
\* index outside the row raises IndexError
ClaveLegible(c, row) == Len(row) > c

\* faulty variant: the span computation rejects a table whose Areas are out
\* of order
FallaSpansSiDesordenada(raw, c) ==
    \E k \in 2..Len(raw) : CodePoint(raw[k][1]) < CodePoint(raw[k - 1][1])

\* lines 172-175 / 191-194: the span computation of level c raises IndexError
\* on raw_data[0] of an empty table or on a row too short for the key
FallaSpans(raw, c) ==
    HayFilas(raw) /\ (raw = <<>> \/ \E k \in 1..Len(raw) : ~ClaveLegible(c, raw[k]))

\* lines 170-184 (c = 0) and 189-201 (c = 1)
SpansColumna(raw, c, acc) ==
    IF HayFilas(raw)
    THEN BucleSpans(raw, c, 2, 1, Clave(c, raw[1]), acc)
    ELSE acc

(***************************************************************************)
(* Step 3 (lines 206-229): blanking of the repeated texts.                 *)
(***************************************************************************)
\* faulty variant: an empty Area is taken as "nothing to compare"
AreaRepetidaNoVacia(area_actual, prev_area) ==
    area_actual # "" /\ prev_area = Algun(area_actual)

\* line 216: if area_actual == prev_area
AreaRepetida(area_actual, prev_area) == prev_area = Algun(area_actual)

\* faulty variant: prev_faena survives a change of Area
PrevFaenaSinReinicio(prev_faena) == prev_faena

\* line 220: prev_faena = None, on a change of Area
PrevFaenaTrasCambio(prev_faena) == None

\* faulty variant: the Faena comparison inverted
FaenaRepetidaInvertida(fila_texto, faena_actual, prev_faena) ==
    fila_texto[1] = "" /\ prev_faena # Algun(faena_actual)

\* line 222: if fila_texto[0] == "" and faena_actual == prev_faena
FaenaRepetida(fila_texto, faena_actual, prev_faena) ==
    fila_texto[1] = "" /\ prev_faena = Algun(faena_actual)

\* faulty variant: the blanked cell is the one to the right
IndiceBlanqueoDesplazado(c) == c + 1

\* lines 217 / 223: fila_texto[0] = "" for the Area, fila_texto[1] = "" for
\* the Faena: the list index assigned for grouping column c
IndiceBlanqueo(c) == c

\* faulty variant: fila_texto = row, the same list
FilaTextoEsAlias == FALSE

\* line 211: fila_texto = list(row), a new list: what is assigned to
\* fila_texto does not reach the row of raw_data
FilaTextoEsCopia == TRUE

\* lines 211-225: one iteration; the result carries the output row, the new
\* prev_area / prev_faena, the list indexes assigned "", the row of raw_data
\* as the iteration leaves it, and whether an index was out of range
\* (IndexError: line 212 on an empty row, lines 217 / 223 on a short one)
PasoBlanqueo(row, prev_area, prev_faena) ==
    IF Len(row) = 0
    THEN [fila |-> row, prev_area |-> prev_area, prev_faena |-> prev_faena,
          cols |-> {}, row |-> row, error |-> TRUE]
    ELSE
    LET area_actual == row[1]
        faena_actual == IF Len(row) > 1 THEN row[2] ELSE ""
        rep0 == AreaRepetida(area_actual, prev_area)
        w0 == IndiceBlanqueo(0)
        err0 == rep0 /\ w0 >= Len(row)
        fila1 == IF rep0 /\ ~err0 THEN [row EXCEPT ![w0 + 1] = ""] ELSE row
        pa1 == IF rep0 THEN prev_area ELSE Algun(area_actual)
        pf1 == IF rep0 THEN prev_faena ELSE PrevFaenaTrasCambio(prev_faena)
        rep1 == ~err0 /\ FaenaRepetida(fila1, faena_actual, pf1)
        w1 == IndiceBlanqueo(1)
        err1 == rep1 /\ w1 >= Len(row)
        fila2 == IF rep1 /\ ~err1 THEN [fila1 EXCEPT ![w1 + 1] = ""] ELSE fila1
        pf2 == IF rep1 THEN pf1 ELSE Algun(faena_actual)
    IN [fila |-> fila2, prev_area |-> pa1, prev_faena |-> pf2,
        cols |-> (IF rep0 THEN {w0} ELSE {}) \cup (IF rep1 THEN {w1} ELSE {}),
        row |-> IF FilaTextoEsCopia THEN row ELSE fila2,
        error |-> err0 \/ err1]

\* faulty variant: a row whose two grouping texts were blanked is dropped
AgregarFilaSinVacias(data, fila) ==
    IF fila[1] = "" /\ fila[2] = "" THEN data ELSE Append(data, fila)

\* line 229: data_procesada.append(fila_visual)
AgregarFila(data, fila) == Append(data, fila)

\* lines 210-229: for row in raw_data; the loop ends at the first IndexError
RECURSIVE BucleBlanqueo(_, _, _, _, _)
BucleBlanqueo(raw, k, prev_area, prev_faena, acc) ==
    IF k > Len(raw) THEN acc
    ELSE LET p == PasoBlanqueo(raw[k], prev_area, prev_faena) IN
         IF p.error THEN [acc EXCEPT !.error = TRUE]
         ELSE BucleBlanqueo(raw, k + 1, p.prev_area, p.prev_faena,
                            [filas |-> AgregarFila(acc.filas, p.fila),
                             blancos |-> acc.blancos \cup {<<k, c>> : c \in p.cols},
                             entrada |-> Append(acc.entrada, p.row),
                             error |-> FALSE])

\* lines 206-229: the output rows (filas), the cells assigned "" (blancos),
\* raw_data as the pass leaves it (entrada), and whether it raised
Blanqueo(raw) ==
    BucleBlanqueo(raw, 1, None, None,
                  [filas |-> <<>>, blancos |-> {}, entrada |-> <<>>, error |-> FALSE])

(***************************************************************************)
(* Step 4 (lines 231-263): the table and its style.                        *)
(***************************************************************************)
\* str.strip() on the texts of the model
Strip(s) == IF s = " " THEN "" ELSE s

\* lines 257-259: LINEABOVE where the visible Area text is not empty
LineasArriba(data) ==
    {<<"LINEABOVE", <<0, i>>, <<-1, i>>>> : i \in {k \in 1..Len(data) : Strip(data[k][1]) # ""}}

(***************************************************************************)
(* The state machine.                                                      *)
(***************************************************************************)
FilasDF == [Turno : Turnos, Area : Areas, Faena : Faenas, Metrica : Metricas,
            Ubicacion : Ubicaciones, Observaciones : Observaciones]

\* the rows a table can hold once normalised (lines 156-159)
FilasTabla == {FilaPdf(r) : r \in FilasDF}

Tablas(filas) == UNION {[1..n -> filas] : n \in 0..MaxRows}

\* the columns of a frame that has all of cols, and Turno
ColumnasCompletas == {"Turno", "Area", "Faena", "Metrica", "Ubicacion", "Observaciones"}

Init ==
    /\ df_dia_completo \in Tablas(FilasDF)
    /\ df_columns = ColumnasCompletas
    /\ cols_existentes = <<>>
    /\ error = ""
    /\ turno_actual = 1
    /\ pc = "turno"
    /\ datos_agregados = FALSE
    /\ raw_data = <<>>
    /\ spans = <<>>
    /\ data_procesada = <<>>
    /\ blanqueadas = {}
    /\ elements = <<>>
    /\ retorno = ""

\* lines 144-149: a shift without rows is skipped
TurnoVacio ==
    /\ pc = "turno"
    /\ turno_actual <= 3
    /\ SelectSeqTurno(df_dia_completo, turno_actual) = <<>>
    /\ turno_actual' = turno_actual + 1
    /\ UNCHANGED <<df_dia_completo, df_columns, cols_existentes, error, pc,
                   datos_agregados, raw_data, spans, data_procesada, blanqueadas,
                   elements, retorno>>

\* faulty variant: the list of spans is created once, before the loop over
\* the shifts
SpansAcumulados(anteriores) == anteriores

\* line 167: spans = [], for every shift
SpansIniciales(anteriores) == <<>>

\* an exception leaves the function: nothing is returned, the locals are lost
Lanza(e) ==
    /\ error' = e
    /\ pc' = "error"

\* lines 144-167: filter, normalise, sort; raw_data and an empty spans list.
\* The sort raises KeyError when the frame lacks Area, Faena or Ubicacion.
FiltrarOrdenar ==
    /\ pc = "turno"
    /\ turno_actual <= 3
    /\ SelectSeqTurno(df_dia_completo, turno_actual) # <<>>
    /\ datos_agregados' = TRUE
    /\ cols_existentes' = ColsExistentes(df_columns)
    /\ IF FaltaColumnaOrden(ColsExistentes(df_columns))
       THEN /\ Lanza("KeyError")
            /\ UNCHANGED <<raw_data, spans>>
       ELSE /\ raw_data' = SortValues(MapFilaPdfDe(SelectSeqTurno(df_dia_completo, turno_actual),
                                                    ColsExistentes(df_columns)),
                                       ColsExistentes(df_columns))
            /\ spans' = SpansIniciales(spans)
            /\ pc' = "spans_area"
            /\ error' = error
    /\ UNCHANGED <<df_dia_completo, df_columns, turno_actual, data_procesada,
                   blanqueadas, elements, retorno>>

\* lines 169-184
SpansArea ==
    /\ pc = "spans_area"
    /\ IF FallaSpans(raw_data, 0)
       THEN /\ Lanza("IndexError")
            /\ UNCHANGED spans
       ELSE /\ spans' = SpansColumna(raw_data, 0, spans)
            /\ pc' = "spans_faena"
            /\ error' = error
    /\ UNCHANGED <<df_dia_completo, df_columns, cols_existentes, turno_actual,
                   datos_agregados, raw_data, data_procesada, blanqueadas,
                   elements, retorno>>

\* lines 186-201
SpansFaena ==
    /\ pc = "spans_faena"
    /\ IF HayFaena(cols_existentes) /\ FallaSpans(raw_data, 1)
       THEN /\ Lanza("IndexError")
            /\ UNCHANGED spans
       ELSE /\ spans' = IF HayFaena(cols_existentes)
                        THEN SpansColumna(raw_data, 1, spans)
                        ELSE spans
            /\ pc' = "blanqueo"
            /\ error' = error
    /\ UNCHANGED <<df_dia_completo, df_columns, cols_existentes, turno_actual,
                   datos_agregados, raw_data, data_procesada, blanqueadas,
                   elements, retorno>>

\* lines 203-229
Blanquear ==
    /\ pc = "blanqueo"
    /\ IF Blanqueo(raw_data).error
       THEN /\ Lanza("IndexError")
            /\ UNCHANGED <<data_procesada, blanqueadas, raw_data>>
       ELSE /\ data_procesada' = Blanqueo(raw_data).filas
            /\ blanqueadas' = Blanqueo(raw_data).blancos
            /\ raw_data' = Blanqueo(raw_data).entrada
            /\ pc' = "tabla"
            /\ error' = error
    /\ UNCHANGED <<df_dia_completo, df_columns, cols_existentes, turno_actual,
                   datos_agregados, spans, elements, retorno>>

\* lines 231-263: header row, style, table appended; next shift
ConstruirTabla ==
    /\ pc = "tabla"
    /\ elements' = Append(elements,
                          [turno |-> turno_actual,
                           data_final |-> <<cols_existentes>> \o data_procesada,
                           spans |-> spans,
                           lineas |-> LineasArriba(data_procesada)])
    /\ turno_actual' = turno_actual + 1
    /\ pc' = "turno"
    /\ UNCHANGED <<df_dia_completo, df_columns, cols_existentes, error,
                   datos_agregados, raw_data, spans, data_procesada, blanqueadas,
                   retorno>>

\* lines 265-270
Retornar ==
    /\ pc = "turno"
    /\ turno_actual > 3
    /\ retorno' = IF ~datos_agregados THEN "None" ELSE "buffer"
    /\ pc' = "fin"
    /\ UNCHANGED <<df_dia_completo, df_columns, cols_existentes, error,
                   turno_actual, datos_agregados, raw_data, spans, data_procesada,
                   blanqueadas, elements>>

Next ==
    \/ TurnoVacio
    \/ FiltrarOrdenar
    \/ SpansArea
    \/ SpansFaena
    \/ Blanquear
    \/ ConstruirTabla
    \/ Retornar

Spec == Init /\ [][Next]_vars

(***************************************************************************)
(* The span computation and the blanking pass applied to any table of      *)
(* uniform rows, sorted or not: raw_data is drawn directly, as the passes  *)
(* of lines 164-229 would receive it.                                      *)
(***************************************************************************)
\* line 153 on a frame without the columns the sort does not need
ColsDeOrden == ColsExistentes(ColumnasCompletas \ {"Metrica", "Observaciones"})

\* the rows of a table of such a frame
FilasDeOrden == {FilaPdfDe(r, ColsDeOrden) : r \in FilasDF}

InitTabla ==
    /\ df_dia_completo = <<>>
    /\ error = ""
    /\ turno_actual = 1
    /\ pc = "spans_area"
    /\ datos_agregados = TRUE
    /\ \/ /\ df_columns = ColumnasCompletas
          /\ cols_existentes = cols
          /\ raw_data \in Tablas(FilasTabla)
       \/ /\ df_columns = ColumnasCompletas \ {"Metrica", "Observaciones"}
          /\ cols_existentes = ColsDeOrden
          /\ raw_data \in Tablas(FilasDeOrden)
    /\ spans = <<>>
    /\ data_procesada = <<>>
    /\ blanqueadas = {}
    /\ elements = <<>>
    /\ retorno = ""

NextTabla ==
    \/ SpansArea
    \/ SpansFaena
    \/ Blanquear

SpecTabla == InitTabla /\ [][NextTabla]_vars

(***************************************************************************)
(* The function on frames that may lack columns the sort of line 162 names *)
(* and whose rows are spread over the three shifts.                        *)
(***************************************************************************)
TurnosDelDia == {1, 2, 3}

FilasPorTurno == [Turno : TurnosDelDia, Area : {"X", "Y"}, Faena : {"A"},
                  Metrica : Metricas, Ubicacion : Ubicaciones,
                  Observaciones : Observaciones]

InitColumnas ==
    /\ df_dia_completo \in Tablas(FilasPorTurno)
    /\ \E faltan \in SUBSET {"Area", "Faena", "Ubicacion"} :
          df_columns = ColumnasCompletas \ faltan
    /\ cols_existentes = <<>>
    /\ error = ""
    /\ turno_actual = 1
    /\ pc = "turno"
    /\ datos_agregados = FALSE
    /\ raw_data = <<>>
    /\ spans = <<>>
    /\ data_procesada = <<>>
    /\ blanqueadas = {}
    /\ elements = <<>>
    /\ retorno = ""

SpecColumnas == InitColumnas /\ [][Next]_vars

(***************************************************************************)
(* Properties.  Rows are counted as in the rendered table: row k of        *)
(* raw_data is data row k-1 of the specification, so a span of data rows   *)
(* s..e is the command Span(c, s+1, e+1).                                  *)
(***************************************************************************)
\* the spans and the blanked rows of the current table are both computed
Hecho == pc = "tabla"

N == Len(raw_data)

Emitidos == {spans[j] : j \in 1..Len(spans)}

Col(sp) == sp[2][1]
Ini(sp) == sp[2][2]
Fin(sp) == sp[3][2]

\* the (Area, Faena) pairs of a table, row by row
Grupos(rows) == [k \in 1..Len(rows) |-> <<rows[k][1], rows[k][2]>>]

\* C1: for every emitted span of column C over rows s..e with e > s, the
\* blanked output holds "" in column C on the rows s+1..e and the original
\* value on row s.
C1_SpansBlanqueados ==
    Hecho =>
        \A sp \in Emitidos :
            Fin(sp) > Ini(sp) =>
                /\ \A i \in (Ini(sp) + 1)..Fin(sp) : data_procesada[i][Col(sp) + 1] = ""
                /\ data_procesada[Ini(sp)][Col(sp) + 1] = raw_data[Ini(sp)][Col(sp) + 1]

\* a sorted shift table with a span of several rows in each grouping column,
\* over non-empty values, followed by another group
C1_Witness ==
    /\ Hecho
    /\ turno_actual = 1
    /\ df_dia_completo # <<>>
    /\ \A c \in {0, 1} :
          \E sp \in Emitidos :
              /\ Col(sp) = c
              /\ Fin(sp) > Ini(sp)
              /\ Fin(sp) < N
              /\ raw_data[Ini(sp)][c + 1] # ""

\* C2: no emitted span has its start row equal to its end row.
C2_SinSpansDeUnaFila ==
    Hecho => \A sp \in Emitidos : Ini(sp) # Fin(sp)

\* C3: every cell the blanking pass assigned "" lies in an emitted span of
\* its column that starts strictly before the row and ends at or after it.
C3_BlanqueadaEnSpan ==
    Hecho =>
        \A b \in blanqueadas :
            \E sp \in Emitidos :
                /\ Col(sp) = b[2]
                /\ Ini(sp) < b[1]
                /\ b[1] <= Fin(sp)

\* an unsorted table with blanked cells in both columns, one of them in a
\* group that is not the last one
C3_Witness ==
    /\ Hecho
    /\ \E b0, b1 \in blanqueadas : b0[2] = 0 /\ b1[2] = 1 /\ b1[1] < N - 1
    /\ \E k \in 2..N : CodePoint(raw_data[k][1]) < CodePoint(raw_data[k - 1][1])

\* C4: on every row i > 0 whose Area differs from the Area of row i-1, the
\* Faena cell is kept and no Faena span holds both rows, even when the two
\* Faena values are equal.
C4_ReinicioEnCascada ==
    Hecho =>
        \A i \in 2..N :
            raw_data[i][1] # raw_data[i - 1][1] =>
                /\ <<i, 1>> \notin blanqueadas
                /\ data_procesada[i][2] = raw_data[i][2]
                /\ ~ \E sp \in Emitidos :
                        Col(sp) = 1 /\ Ini(sp) <= i - 1 /\ i <= Fin(sp)

\* the Area changes while the Faena repeats, in a sorted and in an unsorted
\* position
C4_Witness ==
    /\ Hecho
    /\ \E i \in 2..N :
          /\ raw_data[i][1] # raw_data[i - 1][1]
          /\ raw_data[i][2] = raw_data[i - 1][2]
          /\ raw_data[i][2] # ""
          /\ CodePoint(raw_data[i][1]) < CodePoint(raw_data[i - 1][1])
    /\ \E i \in 2..N :
          /\ raw_data[i][1] # raw_data[i - 1][1]
          /\ raw_data[i][2] = raw_data[i - 1][2]
          /\ CodePoint(raw_data[i][1]) > CodePoint(raw_data[i - 1][1])

\* Scenario A of the specification: the sorted (Area, Faena) pairs
EscenarioA == <<(<<"X", "A">>), (<<"X", "A">>), (<<"X", "B">>), (<<"Y", "A">>)>>

EscenarioACompactado == <<(<<"X", "A">>), (<<"", "">>), (<<"", "B">>), (<<"Y", "A">>)>>

\* C5 as stated: on Scenario A the compacted output is
\* [(X,A), ("",""), ("",B), (Y,A)] and the only span is Area over data rows 0..1.
C5_EscenarioA_Original ==
    (Hecho /\ Grupos(raw_data) = EscenarioA) =>
        /\ Grupos(data_procesada) = EscenarioACompactado
        /\ Emitidos = {Span(0, 1, 2)}

\* C5 amended: on Scenario A the compacted output is
\* [(X,A), ("",""), ("",B), (Y,A)]; the spans of more than one row are Area
\* over data rows 0..2 and Faena over data rows 0..1, and the last run (data
\* row 3) gets a one-row span in each column.
C5_EscenarioA ==
    (Hecho /\ Grupos(raw_data) = EscenarioA) =>
        /\ Grupos(data_procesada) = EscenarioACompactado
        /\ {sp \in Emitidos : Fin(sp) > Ini(sp)} = {Span(0, 1, 3), Span(1, 1, 2)}
        /\ Emitidos = {Span(0, 1, 3), Span(0, 4, 4), Span(1, 1, 2), Span(1, 4, 4)}

\* Scenario A reached from an input frame that is not sorted
C5_Witness ==
    /\ Hecho
    /\ Grupos(raw_data) = EscenarioA
    /\ Grupos(MapFilaPdf(df_dia_completo)) # EscenarioA

\* C6: a table of exactly one row is output unchanged and has no span.
C6_UnaFila ==
    (Hecho /\ N = 1) =>
        /\ data_procesada = raw_data
        /\ spans = <<>>

TodasIguales ==
    \A k \in 1..N : raw_data[k][1] = raw_data[1][1] /\ raw_data[k][2] = raw_data[1][2]

\* C7: when the n >= 2 rows share one Area and one Faena, the first output
\* row keeps both, every later row has both blanked, and the spans are
\* exactly Area over data rows 0..n-1 and Faena over data rows 0..n-1.
C7_TodasIguales ==
    (Hecho /\ N >= 2 /\ TodasIguales) =>
        /\ data_procesada[1] = raw_data[1]
        /\ blanqueadas = {<<k, c>> : k \in 2..N, c \in {0, 1}}
        /\ \A k \in 2..N : data_procesada[k][1] = "" /\ data_procesada[k][2] = ""
        /\ Emitidos = {Span(0, 1, N), Span(1, 1, N)}
        /\ Len(spans) = 2

C7_Witness ==
    /\ Hecho
    /\ N >= 3
    /\ TodasIguales
    /\ raw_data[1][1] # ""
    /\ raw_data[1][2] # ""

\* row k starts a run of column c that no neighbour shares: a run of length 1
RunDeUnaFila(c, k) ==
    /\ k = 1 \/ Clave(c, raw_data[k]) # Clave(c, raw_data[k - 1])
    /\ k = N \/ Clave(c, raw_data[k]) # Clave(c, raw_data[k + 1])

\* the emitted spans of column c that hold row k, by their place in spans
SpansQueCubren(c, k) ==
    {j \in 1..Len(spans) : Col(spans[j]) = c /\ Ini(spans[j]) <= k /\ k <= Fin(spans[j])}

\* C8: in each grouping column the emitted spans plus the runs of length 1
\* partition the rows: every row is in exactly one of them.
C8_Particion ==
    Hecho =>
        \A c \in {0, 1} : \A k \in 1..N :
            Cardinality(SpansQueCubren(c, k)) + (IF RunDeUnaFila(c, k) THEN 1 ELSE 0) = 1

\* a compacted table with every "" of a grouping column read as the value
\* of the row above
RECURSIVE Heredar(_)
Heredar(data) ==
    IF Len(data) <= 1 THEN data
    ELSE LET ant == Heredar(SubSeq(data, 1, Len(data) - 1))
             sup == ant[Len(ant)]
             f == data[Len(data)]
         IN Append(ant, [f EXCEPT ![1] = IF f[1] = "" THEN sup[1] ELSE f[1],
                                  ![2] = IF f[2] = "" THEN sup[2] ELSE f[2]])

\* C9 as stated: for every sorted input, compacting the compacted output
\* (with "" read as the value above) starts the runs on the same rows.
C9_Idempotencia_Original ==
    Hecho => Blanqueo(Heredar(data_procesada)).blancos = blanqueadas

\* C9 amended: the same, for sorted inputs whose Faena values are not empty.
C9_Idempotencia ==
    (Hecho /\ \A k \in 1..N : raw_data[k][2] # "") =>
        Blanqueo(Heredar(data_procesada)).blancos = blanqueadas

\* a sorted table without empty Faena, with an empty Area, with kept and
\* blanked cells in both columns below the first row
C9_Witness ==
    /\ Hecho
    /\ N >= 4
    /\ \A k \in 1..N : raw_data[k][2] # ""
    /\ raw_data[1][1] = ""
    /\ \A c \in {0, 1} :
          /\ \E k \in 2..N : <<k, c>> \in blanqueadas
          /\ \E k \in 2..N : <<k, c>> \notin blanqueadas

\* C10: the output has as many rows as the input, in the same order, each
\* with as many cells as its input row.
C10_MismaForma ==
    Hecho =>
        /\ Len(data_procesada) = Len(raw_data)
        /\ \A k \in 1..N :
              /\ Len(data_procesada[k]) = Len(raw_data[k])
              /\ \A j \in 1..Len(raw_data[k]) :
                    data_procesada[k][j] \in
                        (IF j <= 2 THEN {raw_data[k][j], ""} ELSE {raw_data[k][j]})

C10_Witness ==
    /\ Hecho
    /\ N >= 3
    /\ \E k \in 2..N : <<k, 0>> \in blanqueadas /\ <<k, 1>> \in blanqueadas
    /\ \E k \in 2..N : CodePoint(raw_data[k][1]) < CodePoint(raw_data[k - 1][1])

\* the group key of row k at level c, read from the table itself
Llave(c, k) == IF c = 0 THEN <<raw_data[k][1]>> ELSE <<raw_data[k][1], raw_data[k][2]>>

\* rows s..e are a maximal run of level c
RunMaximo(c, s, e) ==
    /\ 1 <= s /\ s <= e /\ e <= N
    /\ \A k \in s..e : Llave(c, k) = Llave(c, s)
    /\ s = 1 \/ Llave(c, s - 1) # Llave(c, s)
    /\ e = N \/ Llave(c, e + 1) # Llave(c, e)

\* row k repeats the key of level c of the row above
Repite(c, k) == k > 1 /\ Llave(c, k) = Llave(c, k - 1)

\* C11: an empty Area or Faena is compared like any other value: a run of
\* more than one row with empty Area gets exactly one Area span, and under an
\* empty Area (or for an empty Faena) a cell is blanked if and only if the
\* row above has the same Area (and the same Faena).
C11_VacioComparable ==
    Hecho =>
        /\ \A k \in 1..N :
              (raw_data[k][1] = "" \/ raw_data[k][2] = "") =>
                  /\ <<k, 0>> \in blanqueadas <=> Repite(0, k)
                  /\ <<k, 1>> \in blanqueadas <=> Repite(1, k)
        /\ \A s \in 1..N : \A e \in (s + 1)..N :
              (RunMaximo(0, s, e) /\ raw_data[s][1] = "") =>
                  /\ Span(0, s, e) \in Emitidos
                  /\ Cardinality({j \in 1..Len(spans) :
                                     /\ Col(spans[j]) = 0
                                     /\ Ini(spans[j]) <= e
                                     /\ Fin(spans[j]) >= s}) = 1

\* an unsorted table: a run of two rows with empty Area below another Area,
\* the first keeping a Faena equal to the one above, the second blanked
C11_Witness ==
    /\ Hecho
    /\ \E k \in 2..(N - 1) :
          /\ raw_data[k - 1][1] # ""
          /\ raw_data[k][1] = ""
          /\ raw_data[k + 1][1] = ""
          /\ raw_data[k][2] = raw_data[k - 1][2]
          /\ raw_data[k + 1][2] = raw_data[k][2]
          /\ <<k, 1>> \notin blanqueadas
          /\ <<k + 1, 1>> \in blanqueadas
          /\ Span(0, k, k + 1) \in Emitidos

\* C18: the Area cell of row i is replaced by "" if and only if i > 0 and
\* Area[i] = Area[i-1]; the Faena cell if and only if, besides, Faena[i] =
\* Faena[i-1]; every other grouping cell keeps its value, and the first row
\* keeps both.
C18_ReglaDeBlanqueo ==
    Hecho =>
        /\ \A k \in 1..N : \A c \in {0, 1} :
              /\ <<k, c>> \in blanqueadas <=> Repite(c, k)
              /\ data_procesada[k][c + 1] =
                     IF Repite(c, k) THEN "" ELSE raw_data[k][c + 1]
        /\ blanqueadas \subseteq (2..N) \X {0, 1}
        /\ N >= 1 => data_procesada[1] = raw_data[1]

\* an unsorted table whose first row has values, with a row that repeats only
\* the Faena, one that repeats only the Area, and one that repeats both
C18_Witness ==
    /\ Hecho
    /\ N >= 4
    /\ raw_data[1][1] # "" /\ raw_data[1][2] # ""
    /\ \E k \in 2..N : ~Repite(0, k) /\ raw_data[k][2] = raw_data[k - 1][2]
    /\ \E k \in 2..N : Repite(0, k) /\ ~Repite(1, k)
    /\ \E k \in 2..N : Repite(1, k)

\* C19: every emitted span is one maximal run in table rows 1..n of column 0
\* or 1, and the last run, when longer than one row, is emitted ending on
\* row n.
C19_SpanEsRunMaximo ==
    (Hecho /\ N >= 1) =>
        /\ \A sp \in Emitidos :
              /\ sp[1] = "SPAN"
              /\ Col(sp) \in {0, 1}
              /\ sp[3][1] = Col(sp)
              /\ 1 <= Ini(sp) /\ Ini(sp) <= Fin(sp) /\ Fin(sp) <= N
              /\ RunMaximo(Col(sp), Ini(sp), Fin(sp))
        /\ \A c \in {0, 1} : \A s \in 1..(N - 1) :
              RunMaximo(c, s, N) => Span(c, s, N) \in Emitidos

\* spans closed inside the table and at its end, in both columns
C19_Witness ==
    /\ Hecho
    /\ \A c \in {0, 1} :
          /\ \E sp \in Emitidos : Col(sp) = c /\ Fin(sp) < N /\ Ini(sp) < Fin(sp)
          /\ \E sp \in Emitidos : Col(sp) = c /\ Fin(sp) = N /\ Ini(sp) < N

\* the rows of the current table on which level c starts a run with key v
IniciosDe(c, v) == {k \in 1..N : Llave(c, k) = v /\ ~Repite(c, k)}

\* C20: in every shift table, sorted by the function, each Area and each
\* (Area, Faena) pair starts exactly one run; each Area is left un-blanked on
\* exactly one row and is covered by at most one Area span.
C20_UnRunPorValor ==
    Hecho =>
        /\ \A c \in {0, 1} : \A k \in 1..N :
              Cardinality(IniciosDe(c, Llave(c, k))) = 1
        /\ \A k \in 1..N :
              /\ Cardinality({i \in 1..N : /\ raw_data[i][1] = raw_data[k][1]
                                           /\ <<i, 0>> \notin blanqueadas}) = 1
              /\ Cardinality({j \in 1..Len(spans) :
                                 /\ Col(spans[j]) = 0
                                 /\ Ini(spans[j]) \in 1..N
                                 /\ raw_data[Ini(spans[j])][1] = raw_data[k][1]}) <= 1

\* a frame whose rows interleave two Areas and two Faenas of one Area
C20_Witness ==
    /\ Hecho
    /\ Len(df_dia_completo) = 4
    /\ df_dia_completo[1].Area = df_dia_completo[3].Area
    /\ df_dia_completo[2].Area = df_dia_completo[4].Area
    /\ df_dia_completo[1].Area # df_dia_completo[2].Area
    /\ df_dia_completo[1].Faena # df_dia_completo[3].Faena
    /\ CodePoint(Texto(df_dia_completo[1].Faena)) > CodePoint(Texto(df_dia_completo[3].Faena))

\* C12: in every table, every cell of a column after Faena is, in the
\* compacted output, the cell of the input row; every cell assigned "" lies
\* in column 0 or 1; and every span starts and ends in column 0 or in column 1.
C12_HojasIntactas ==
    Hecho =>
        /\ \A k \in 1..N : \A j \in 3..Len(raw_data[k]) :
              data_procesada[k][j] = raw_data[k][j]
        /\ \A b \in blanqueadas : b[2] \in {0, 1}
        /\ \A sp \in Emitidos : Col(sp) \in {0, 1} /\ sp[3][1] = Col(sp)

\* a row with both grouping cells blanked, inside spans of both columns, whose
\* other cells all hold text
C12_Witness ==
    /\ Hecho
    /\ \E k \in 1..N :
          /\ <<k, 0>> \in blanqueadas /\ <<k, 1>> \in blanqueadas
          /\ \A j \in 3..Len(raw_data[k]) : data_procesada[k][j] # ""
          /\ \A c \in {0, 1} : \E sp \in Emitidos :
                Col(sp) = c /\ Ini(sp) < k /\ k <= Fin(sp)

\* the table the function builds for the current shift (lines 146-166)
TablaDelTurno ==
    SortValues(MapFilaPdfDe(SelectSeqTurno(df_dia_completo, turno_actual),
                            cols_existentes),
               cols_existentes)

\* C13: once the blanking pass has run, raw_data is still the sorted table of
\* the shift, row by row and cell by cell, also where the output holds "".
C13_EntradaIntacta ==
    Hecho => raw_data = TablaDelTurno

\* the output blanks an Area and a Faena that raw_data still holds
C13_Witness ==
    /\ Hecho
    /\ \E k \in 1..N :
          /\ <<k, 0>> \in blanqueadas /\ <<k, 1>> \in blanqueadas
          /\ data_procesada[k][1] = "" /\ raw_data[k][1] # ""
          /\ data_procesada[k][2] = "" /\ raw_data[k][2] # ""

\* the Areas of the current table are out of order somewhere
Desordenada == \E k \in 2..N : CodePoint(raw_data[k][1]) < CodePoint(raw_data[k - 1][1])

\* C14: on every table of rows of one width, sorted or not, neither the span
\* computation nor the blanking pass raises, and once both have run the
\* result is the one the adjacency of the rows fixes: one output row per
\* input row, a cell blanked exactly where its key repeats the key of the row
\* above, and every span a maximal run of adjacent rows with one key.
C14_SinOrdenNoFalla ==
    /\ error = "" /\ pc # "error"
    /\ Hecho =>
          /\ Len(data_procesada) = N
          /\ blanqueadas = {<<k, c>> \in (1..N) \X {0, 1} : Repite(c, k)}
          /\ \A sp \in Emitidos : RunMaximo(Col(sp), Ini(sp), Fin(sp))

\* both passes have run on a table whose Areas are out of order, an Area
\* coming back after another one, and spans were emitted
C14_Witness ==
    /\ Hecho
    /\ Desordenada
    /\ \E i, k \in 1..N : i + 1 < k /\ raw_data[i][1] = raw_data[k][1]
                                    /\ raw_data[i + 1][1] # raw_data[i][1]
    /\ spans # <<>>
    /\ error = ""

\* C15: on a table of zero rows no error is raised, and once both passes
\* have run the output is the empty sequence and no span was emitted.
C15_TablaVacia ==
    N = 0 =>
        /\ error = "" /\ pc # "error"
        /\ Hecho => spans = <<>> /\ data_procesada = <<>> /\ blanqueadas = {}

\* both passes have run on the empty table
C15_Witness == Hecho /\ N = 0 /\ error = ""

\* C16 as stated: a table whose rows do not have the declared number of
\* columns is rejected with SchemaMismatchError, and neither pass produces
\* anything.
C16_AnchoRechazado_Original ==
    (\E k \in 1..N : Len(raw_data[k]) # Len(cols)) =>
        /\ pc \in {"spans_area", "error"}
        /\ pc = "error" => error = "SchemaMismatchError"
        /\ spans = <<>> /\ data_procesada = <<>>

\* C16 amended: the width of a row is never checked: every row of a table
\* has one cell per declared column present in the frame, fewer than the
\* declared columns when the frame lacks some; no error is raised, and once
\* both passes have run the output has one row per input row, each of the
\* width of its input row.
C16_AnchoNoValidado ==
    /\ error = "" /\ pc # "error"
    /\ \A k \in 1..N : Len(raw_data[k]) = Len(cols_existentes)
    /\ Hecho => /\ Len(data_procesada) = N
                /\ \A k \in 1..N : Len(data_procesada[k]) = Len(cols_existentes)

\* both passes have run on a table narrower than the declared columns and
\* produced spans and blanked cells
C16_Witness ==
    /\ Hecho
    /\ N > 1
    /\ Len(cols_existentes) < Len(cols)
    /\ \A k \in 1..N : Len(data_procesada[k]) < Len(cols)
    /\ spans # <<>>
    /\ blanqueadas # {}

\* the frame lacks the Area or the Faena column, the two grouping columns
FaltaAgrupacion == ~({"Area", "Faena"} \subseteq df_columns)

\* the function has ended, by a return or by an exception
Terminado == pc \in {"fin", "error"}

\* C17 as stated: a frame without one of the grouping columns is rejected
\* with InvalidConfigurationError, and no span or compacted row is produced.
C17_ConfiguracionRechazada_Original ==
    FaltaAgrupacion =>
        /\ Terminado => error = "InvalidConfigurationError"
        /\ spans = <<>> /\ data_procesada = <<>>

\* C17 amended: the grouping columns are fixed in the code and nothing is
\* validated up front. On a frame without Area or Faena no span, compacted
\* row or table is ever produced; the function ends with KeyError, raised by
\* the sort at the first shift that has rows, whenever some shift has rows,
\* and returns None without an error when no shift has any.
C17_ConfiguracionNoValidada ==
    FaltaAgrupacion =>
        /\ spans = <<>> /\ data_procesada = <<>> /\ elements = <<>>
        /\ pc \in {"turno", "fin", "error"}
        /\ error \in {"", "KeyError"}
        /\ pc = "error" =>
              /\ error = "KeyError"
              /\ SelectSeqTurno(df_dia_completo, turno_actual) # <<>>
              /\ \A t \in 1..(turno_actual - 1) : SelectSeqTurno(df_dia_completo, t) = <<>>
        /\ pc = "fin" =>
              /\ error = "" /\ retorno = "None"
              /\ \A t \in TurnosDelDia : SelectSeqTurno(df_dia_completo, t) = <<>>

\* a frame without the Faena column whose first rows are those of shift 2:
\* the KeyError is raised there
C17_Witness ==
    /\ "Faena" \notin df_columns
    /\ pc = "error" /\ error = "KeyError"
    /\ turno_actual = 2
    /\ Len(df_dia_completo) > 1

\* the table appended last, while raw_data is still the one it was built from
UltimaTabla == elements[Len(elements)]

\* the divider line above table row k
LineaArriba(k) == <<"LINEABOVE", <<0, k>>, <<-1, k>>>>

\* C21: in every shift table, a LINEABOVE divider lies above table row k if
\* and only if data row k starts a new Area run (it is the first row, or its
\* Area differs from the Area of the row above), whatever the Area, an empty
\* one included.
C21_LineasPorGrupo ==
    (pc \in {"turno", "fin"} /\ elements # <<>>) =>
        \A k \in 1..N : LineaArriba(k) \in UltimaTabla.lineas <=> ~Repite(0, k)

\* the sorted table of shift t (lines 146-166) of a frame that has every column
TablaDe(t) == SortValues(MapFilaPdf(SelectSeqTurno(df_dia_completo, t)), cols)

\* shift t has no row (line 148)
SinFilas(t) == SelectSeqTurno(df_dia_completo, t) = <<>>

\* C22: the tables are appended in the order of the shifts, one for every
\* shift that has rows and none for the others; the table of a shift has one
\* row per row of that shift under the header, its first row keeps the Area
\* and the Faena of the shift's first row, an Area is blanked exactly where it
\* repeats the Area of the row above in that shift, and every span joins rows
\* of that shift's table that share the span's key; the function returns None
\* exactly when none of the shifts 1..3 has a row.
C22_SinFugaEntreTurnos ==
    /\ \A j \in 1..Len(elements) :
          LET e == elements[j]
              tab == TablaDe(e.turno)
              n == Len(tab)
          IN /\ e.turno \in TurnosDelDia /\ e.turno < turno_actual
             /\ j > 1 => elements[j - 1].turno < e.turno
             /\ n > 0 /\ Len(e.data_final) = n + 1
             /\ e.data_final[2][1] = tab[1][1] /\ e.data_final[2][2] = tab[1][2]
             /\ \A k \in 2..n :
                   e.data_final[k + 1][1] = IF tab[k][1] = tab[k - 1][1] THEN "" ELSE tab[k][1]
             /\ \A i \in 1..Len(e.spans) :
                   LET sp == e.spans[i] IN
                   /\ 1 <= Ini(sp) /\ Ini(sp) <= Fin(sp) /\ Fin(sp) <= n
                   /\ \A k \in Ini(sp)..Fin(sp) :
                         /\ tab[k][1] = tab[Ini(sp)][1]
                         /\ Col(sp) = 1 => tab[k][2] = tab[Ini(sp)][2]
                   /\ \A h \in 1..Len(e.spans) : h # i => e.spans[h] # sp
    /\ (pc \in {"turno", "fin"} /\ error = "" /\ ~FaltaColumnaOrden(ColsExistentes(df_columns))) =>
          \A t \in TurnosDelDia :
             (t < turno_actual /\ ~SinFilas(t)) => \E j \in 1..Len(elements) : elements[j].turno = t
    /\ pc = "fin" => (retorno = "None" <=> \A t \in TurnosDelDia : SinFilas(t))

\* the function has returned the document of a day whose shift 2 is empty
\* and whose shifts 1 and 3 each hold rows of one Area and Faena, the same in
\* both shifts: both tables carry spans and the table of shift 3 opens with
\* the Area and the Faena that close the table of shift 1
C22_Witness ==
    /\ pc = "fin" /\ retorno = "buffer"
    /\ SinFilas(2)
    /\ Len(elements) = 2
    /\ elements[1].turno = 1 /\ elements[2].turno = 3
    /\ elements[1].spans # <<>> /\ elements[2].spans # <<>>
    /\ LET ultima == TablaDe(1)[Len(TablaDe(1))]
       IN /\ elements[2].data_final[2][1] = ultima[1]
          /\ elements[2].data_final[2][2] = ultima[2]
          /\ ultima[1] # ""

=============================================================================
